---- MODULE Spec2Model ----
(***************************************************************************)
(* Model of the Flask CI/CD demo service (src/app.py): the configuration   *)
(* built by create_app, the request pipeline (before_request hook, URL     *)
(* routing, the six view functions, the 404/500 error handlers, the        *)
(* after_request hook) and the framework rules the views rely on           *)
(* (automatic HEAD/OPTIONS, the built-in static route, exception           *)
(* propagation in debug/testing mode, get_json).                           *)
(***************************************************************************)
EXTENDS Integers, Sequences, FiniteSets, TLC

VARIABLES config, psutil_installed, get_json_silent, sink_ok, now, req

vars == <<config, psutil_installed, get_json_silent, sink_ok, now, req>>

(***************************************************************************)
(* Bounds                                                                  *)
(***************************************************************************)
\* the clock takes the values 0..MaxTime
MaxTime == 2
\* number of requests that are in flight at once in SpecConc
MaxInFlight == 2

\* the sequential service handles one request at a time, any number in a row
SeqClients == {1}
ConcClients == 1..MaxInFlight
\* two clients, for comparing the answers to two requests
PairClients == {1, 2}

(***************************************************************************)
(* Configuration: create_app, app.config.update                            *)
(***************************************************************************)
VERSION == "1.0.0"

\* values the environment variables (and a test fixture's config.update)
\* give the configuration
Configs ==
    [ SECRET_KEY   : {"dev-secret-key-change-in-production"},
      DEBUG        : BOOLEAN,
      TESTING      : BOOLEAN,
      PORT         : {5000},
      HOST         : {"0.0.0.0"},
      ENV          : {"production", "staging"},
      VERSION      : {VERSION},
      BUILD_NUMBER : {"unknown", "42"},
      GIT_COMMIT   : {"unknown"} ]

(***************************************************************************)
(* JSON documents and the Python values json.loads makes of them           *)
(***************************************************************************)
JNull      == [t |-> "null"]
JBool(b)   == [t |-> "bool", b |-> b]
JNum(n)    == [t |-> "number", n |-> n]
JStr(s)    == [t |-> "string", s |-> s]
JArr(xs)   == [t |-> "array", items |-> xs]
JObj(keys, m) == [t |-> "object", keys |-> keys, members |-> m]

JEmptyObj == JObj({}, [k \in {} |-> JNull])

JMessage ==
    JObj({"message", "number"},
         [k \in {"message", "number"} |->
            IF k = "message" THEN JStr("Hello, World!") ELSE JNum(42)])

JSpecial ==
    JObj({"quotes"}, [k \in {"quotes"} |-> JStr("He said \"Hello\" and 'Goodbye'")])

JNested ==
    JObj({"list", "inner"},
         [k \in {"list", "inner"} |->
            IF k = "list" THEN JArr(<<JNum(1), JNull, JStr("x")>>) ELSE JEmptyObj])

\* the JSON documents a client sends
JsonValues ==
    { JNull, JBool(TRUE), JBool(FALSE), JNum(0), JNum(42), JStr(""),
      JStr("Hello"), JArr(<<>>), JArr(<<JNum(0), JMessage>>),
      JEmptyObj, JMessage, JSpecial, JNested }

PyNone == [py |-> "NoneType"]
PyEmptyDict == [py |-> "dict", keys |-> {}, members |-> [k \in {} |-> PyNone]]

RECURSIVE json_loads(_)
\* json.loads: a JSON document to a Python value
json_loads(j) ==
    CASE j.t = "null"   -> PyNone
      [] j.t = "bool"   -> [py |-> "bool", b |-> j.b]
      [] j.t = "number" -> [py |-> "int", n |-> j.n]
      [] j.t = "string" -> [py |-> "str", s |-> j.s]
      [] j.t = "array"  ->
            [py |-> "list", items |-> [i \in DOMAIN j.items |-> json_loads(j.items[i])]]
      [] j.t = "object" ->
            [py |-> "dict", keys |-> j.keys,
             members |-> [k \in j.keys |-> json_loads(j.members[k])]]

RECURSIVE json_dumps(_)
\* json.dumps (inside jsonify): a Python value to a JSON document
json_dumps(p) ==
    CASE p.py = "NoneType" -> JNull
      [] p.py = "bool"     -> JBool(p.b)
      [] p.py = "int"      -> JNum(p.n)
      [] p.py = "str"      -> JStr(p.s)
      [] p.py = "list"     ->
            JArr([i \in DOMAIN p.items |-> json_dumps(p.items[i])])
      [] p.py = "dict"     ->
            JObj(p.keys, [k \in p.keys |-> json_dumps(p.members[k])])

\* Python truth value testing, as used by `x or {}`
truthy(p) ==
    CASE p.py = "NoneType" -> FALSE
      [] p.py = "bool"     -> p.b
      [] p.py = "int"      -> p.n # 0
      [] p.py = "str"      -> p.s # ""
      [] p.py = "list"     -> Len(p.items) > 0
      [] p.py = "dict"     -> p.keys # {}

\* datetime.utcnow().isoformat()
isoformat(t) == [iso8601 |-> t]

(***************************************************************************)
(* Requests                                                                *)
(***************************************************************************)
Methods == {"GET", "POST", "HEAD", "OPTIONS", "DELETE"}

RoutePaths == {"/", "/health", "/api/status", "/api/version", "/api/echo", "/api/metrics"}
\* a path under the static URL prefix, and a path no rule matches
StaticPaths == {"/static/app.css"}
UnknownPaths == {"/nonexistent-endpoint"}
Paths == RoutePaths \cup StaticPaths \cup UnknownPaths

NoContentType == "<none>"
ContentTypes == {NoContentType, "application/json"}

\* what the client put in the body: nothing, text that is no JSON, or a JSON document
NoBody == [raw |-> "absent", doc |-> JNull]
TextBody == [raw |-> "text", doc |-> JNull]
JsonBody(j) == [raw |-> "json", doc |-> j]
Bodies == {NoBody, TextBody} \cup {JsonBody(j) : j \in JsonValues}

\* requests of every method to every path; only the echo view reads a body
AllRequests ==
    [method : Methods, path : Paths, content_type : {NoContentType}, body : {NoBody}]
    \cup [method : {"POST"}, path : {"/api/echo"}, content_type : ContentTypes, body : Bodies]

\* the requests of the concurrent clients
ConcRequests ==
    [method : {"GET"}, path : {"/api/status", "/api/version", "/nonexistent-endpoint"},
     content_type : {NoContentType}, body : {NoBody}]
    \cup [method : {"POST"}, path : {"/api/echo"}, content_type : {"application/json"},
          body : {JsonBody(JMessage)}]

\* the requests of two clients whose answers are compared
PairRequests ==
    [method : {"GET"}, path : {"/health", "/api/version"},
     content_type : {NoContentType}, body : {NoBody}]
    \cup [method : {"POST"}, path : {"/api/echo"}, content_type : {NoContentType},
          body : {TextBody}]

NoResponse == [status |-> 0, mimetype |-> "", body |-> [empty |-> TRUE], allow |-> {}]
EmptyBody == [empty |-> TRUE]

\* a slot with no request context
Idle ==
    [ pc |-> "idle", method |-> "", path |-> "", content_type |-> NoContentType,
      body |-> NoBody, started |-> FALSE, start_time |-> 0, view |-> "",
      exc |-> "", from_error_handler |-> FALSE, rv |-> NoResponse,
      sent |-> NoResponse, log |-> <<>>, written |-> <<>> ]

(***************************************************************************)
(* URL map: the @app.route rules, the static rule Flask(__name__) adds,    *)
(* and the HEAD/OPTIONS methods the framework adds to every rule           *)
(***************************************************************************)
\* mutant: a rule that does not restrict the methods
Rule_any_method(path, endpoint, methods) ==
    [path |-> path, endpoint |-> endpoint, methods |-> Methods]

Rule(path, endpoint, methods) ==
    [ path |-> path, endpoint |-> endpoint,
      methods |-> methods \cup (IF "GET" \in methods THEN {"HEAD"} ELSE {}) \cup {"OPTIONS"} ]

url_map ==
    { Rule("/", "home", {"GET"}),
      Rule("/health", "health_check", {"GET"}),
      Rule("/api/status", "api_status", {"GET"}),
      Rule("/api/version", "api_version", {"GET"}),
      Rule("/api/echo", "api_echo", {"POST"}),
      Rule("/api/metrics", "api_metrics", {"GET"}) }
    \cup { Rule(p, "static", {"GET"}) : p \in StaticPaths }

\* the outcome of URL matching: an endpoint, or a routing exception
match_request(method, path) ==
    LET rules == { u \in url_map : u.path = path } IN
    IF rules = {} THEN [endpoint |-> "", routing_exception |-> "NotFound", allow |-> {}]
    ELSE LET u == CHOOSE u \in rules : TRUE IN
         IF method \in u.methods
         THEN [endpoint |-> u.endpoint, routing_exception |-> "", allow |-> u.methods]
         ELSE [endpoint |-> "", routing_exception |-> "MethodNotAllowed", allow |-> u.methods]

\* the view function a request in the dispatch stage runs ("" when none does)
view_of(q) ==
    LET m == match_request(q.method, q.path) IN
    IF m.routing_exception # "" \/ q.method = "OPTIONS" THEN "" ELSE m.endpoint

(***************************************************************************)
(* Results of views and handlers                                           *)
(***************************************************************************)
Returns(resp) == [raised |-> FALSE, exc |-> "", response |-> resp, logged |-> <<>>]
Raises(e) == [raised |-> TRUE, exc |-> e, response |-> NoResponse, logged |-> <<>>]

\* jsonify(body), status
jsonify(body, status) ==
    [status |-> status, mimetype |-> "application/json", body |-> body, allow |-> {}]

\* a view's result that also wrote to the logger
ReturnsLogging(resp, entries) == [Returns(resp) EXCEPT !.logged = entries]

(***************************************************************************)
(* logger.info / logger.error lines                                        *)
(***************************************************************************)
RequestLine(q) ==
    [level |-> "INFO", msg |-> "Request", method |-> q.method, url |-> q.path,
     ip |-> "127.0.0.1"]
ResponseLine(status, duration) ==
    [level |-> "INFO", msg |-> "Response", status |-> status, duration |-> duration]
ErrorLine(what, e) == [level |-> "ERROR", msg |-> what, error |-> e]

\* mutant: a line the sink cannot take makes the logger call raise
logger_call_raising(q, line) ==
    IF sink_ok
    THEN [q EXCEPT !.log = Append(@, line), !.written = Append(@, TRUE)]
    ELSE [q EXCEPT !.exc = "LoggerError"]

\* logger.info(line) / logger.error(line) in request context q. The logger is
\* the one logging.basicConfig sets up: a stream handler, whose emit hands a
\* failed write to handleError and returns, so the call returns either way and
\* the line is written or lost.
logger_call(q, line) ==
    [q EXCEPT !.log = Append(@, line), !.written = Append(@, sink_ok)]

\* the logger call raised instead of returning
LoggerRaised(q) == q.exc = "LoggerError"

RECURSIVE logger_calls(_, _)
\* the logger calls a view made, in order
logger_calls(q, entries) ==
    IF entries = <<>> \/ LoggerRaised(q) THEN q
    ELSE logger_calls(logger_call(q, Head(entries)), Tail(entries))

(***************************************************************************)
(* The view functions                                                      *)
(***************************************************************************)
\* home: render_template_string(html_template, ...)
home_view(cfg, t) ==
    Returns([ status |-> 200, mimetype |-> "text/html", allow |-> {},
              body |-> [ html |-> "Flask CI/CD Demo Application",
                         version |-> cfg.VERSION, env |-> cfg.ENV,
                         current_time |-> [strftime |-> t],
                         build_number |-> cfg.BUILD_NUMBER,
                         git_commit |-> cfg.GIT_COMMIT,
                         host |-> cfg.HOST, port |-> cfg.PORT ] ])

\* mutant: the health check reports the time the service has been up
health_check_view_uptime(cfg, t) ==
    Returns(jsonify([ status |-> "healthy", timestamp |-> isoformat(t),
                      version |-> cfg.VERSION, uptime |-> [seconds |-> t] ], 200))

\* mutant: the health check reads its uptime through psutil
health_check_view_needs_psutil(cfg, t) ==
    IF ~psutil_installed THEN Raises("ModuleNotFoundError")
    ELSE Returns(jsonify([ status |-> "healthy", timestamp |-> isoformat(t),
                           version |-> cfg.VERSION, uptime |-> "Available" ], 200))

\* health_check
health_check_view(cfg, t) ==
    Returns(jsonify([ status |-> "healthy", timestamp |-> isoformat(t),
                      version |-> cfg.VERSION, uptime |-> "Available" ], 200))

\* mutant: the status is derived from a process-wide record of failed requests
api_status_view_shared(cfg, t) ==
    Returns(jsonify([ application |-> "Flask CI/CD Demo",
                      status |-> IF \E x \in DOMAIN req : req[x].exc # ""
                                 THEN "degraded" ELSE "running",
                      version |-> cfg.VERSION, environment |-> cfg.ENV,
                      build_number |-> cfg.BUILD_NUMBER, git_commit |-> cfg.GIT_COMMIT,
                      timestamp |-> isoformat(t), debug_mode |-> cfg.DEBUG,
                      testing_mode |-> cfg.TESTING ], 200))

\* api_status
api_status_view(cfg, t) ==
    Returns(jsonify([ application |-> "Flask CI/CD Demo", status |-> "running",
                      version |-> cfg.VERSION, environment |-> cfg.ENV,
                      build_number |-> cfg.BUILD_NUMBER, git_commit |-> cfg.GIT_COMMIT,
                      timestamp |-> isoformat(t), debug_mode |-> cfg.DEBUG,
                      testing_mode |-> cfg.TESTING ], 200))

\* api_version: building the dict evaluates Flask.__version__, an attribute the
\* Flask class does not have, before jsonify is called
api_version_view(cfg) == Raises("AttributeError")

\* request.get_json(): the parsed body, None, or an HTTP exception
get_json(q, silent) ==
    IF q.content_type # "application/json"
    THEN IF silent THEN [raised |-> FALSE, exc |-> "", value |-> PyNone]
         ELSE [raised |-> TRUE, exc |-> "415 Unsupported Media Type", value |-> PyNone]
    ELSE IF q.body.raw = "json"
         THEN [raised |-> FALSE, exc |-> "", value |-> json_loads(q.body.doc)]
         ELSE [raised |-> TRUE, exc |-> "400 Bad Request", value |-> PyNone]

\* dict(request.headers)
request_headers(q) ==
    IF q.content_type = NoContentType THEN [h \in {"Host"} |-> "localhost"]
    ELSE [h \in {"Host", "Content-Type"} |->
            IF h = "Host" THEN "localhost" ELSE q.content_type]

\* api_echo
api_echo_view(q, silent, t) ==
    LET got == get_json(q, silent) IN
    IF got.raised
    THEN ReturnsLogging(jsonify([error |-> got.exc], 400),
                        <<ErrorLine("Echo endpoint error", got.exc)>>)
    ELSE LET data == IF truthy(got.value) THEN got.value ELSE PyEmptyDict IN
         Returns(jsonify([ echo |-> json_dumps(data), method |-> q.method,
                           content_type |-> q.content_type,
                           timestamp |-> isoformat(t),
                           headers |-> request_headers(q) ], 200))

\* the 'application' object of the metrics document
metrics_application(cfg) ==
    [ version |-> cfg.VERSION, environment |-> cfg.ENV,
      python_version |-> "<sys.version>", process_id |-> "<os.getpid()>" ]

\* api_metrics: `import psutil` runs before the try block, so a missing module
\* raises out of the view; nothing inside the try raises ImportError, which
\* leaves the except branch (the 'metrics unavailable' document) without a way in
api_metrics_view(cfg, installed, t) ==
    IF ~installed THEN Raises("ModuleNotFoundError")
    ELSE Returns(jsonify([ system |-> [ cpu_percent |-> "<cpu_percent>",
                                        memory_percent |-> "<memory_percent>",
                                        disk_usage |-> "<disk_usage>" ],
                           application |-> metrics_application(cfg),
                           timestamp |-> isoformat(t) ], 200))

(***************************************************************************)
(* Error handlers and framework responses                                  *)
(***************************************************************************)
\* mutant: the 404 envelope without its timestamp
not_found_handler_no_timestamp(t) ==
    jsonify([ error |-> "Not Found",
              message |-> "The requested resource was not found",
              status_code |-> 404 ], 404)

\* not_found
not_found_handler(t) ==
    jsonify([ error |-> "Not Found",
              message |-> "The requested resource was not found",
              status_code |-> 404, timestamp |-> isoformat(t) ], 404)

\* mutant: the 500 handler returns its document without the status code
internal_error_handler_200(t) ==
    jsonify([ error |-> "Internal Server Error",
              message |-> "An unexpected error occurred",
              status_code |-> 500, timestamp |-> isoformat(t) ], 200)

\* internal_error
internal_error_handler(t) ==
    jsonify([ error |-> "Internal Server Error",
              message |-> "An unexpected error occurred",
              status_code |-> 500, timestamp |-> isoformat(t) ], 500)

\* the framework's own answer to MethodNotAllowed: no handler is registered for 405
method_not_allowed_response(allow) ==
    [ status |-> 405, mimetype |-> "text/html", allow |-> allow,
      body |-> [html |-> "405 Method Not Allowed"] ]

\* the framework's automatic answer to OPTIONS
default_options_response(allow) ==
    [status |-> 200, mimetype |-> "text/html", allow |-> allow, body |-> EmptyBody]

\* handle_exception re-raises instead of calling the 500 handler when
\* PROPAGATE_EXCEPTIONS (unset here) defaults to testing or debug
propagate_exceptions(cfg) == cfg.TESTING \/ cfg.DEBUG

(***************************************************************************)
(* The request pipeline                                                    *)
(***************************************************************************)
InFlight(r) == req[r].pc \notin {"idle", "done", "propagated"}

\* a client's request reaches the application: a fresh request context
Arrive(r, q) ==
    /\ ~InFlight(r)
    /\ req' = [req EXCEPT ![r] =
                 [Idle EXCEPT !.pc = "before", !.method = q.method, !.path = q.path,
                              !.content_type = q.content_type, !.body = q.body]]
    /\ UNCHANGED <<config, psutil_installed, get_json_silent, sink_ok, now>>

\* the stream the logger writes to breaks, or works again
sink_changes ==
    /\ sink_ok' = ~sink_ok
    /\ UNCHANGED <<config, psutil_installed, get_json_silent, now, req>>

\* time passes
Tick ==
    /\ now < MaxTime
    /\ now' = now + 1
    /\ UNCHANGED <<config, psutil_installed, get_json_silent, sink_ok, req>>

\* mutant: the hook logs the request and does not capture the start time
log_request_info_no_start(r) ==
    /\ req[r].pc = "before"
    /\ req' = [req EXCEPT ![r] =
                 [logger_call(req[r], RequestLine(req[r])) EXCEPT !.pc = "dispatch"]]
    /\ UNCHANGED <<config, psutil_installed, get_json_silent, sink_ok, now>>

\* mutant: the start time is kept in one place for all requests
log_request_info_global_start(r) ==
    /\ req[r].pc = "before"
    /\ req' = [x \in DOMAIN req |->
                 IF x = r
                 THEN [logger_call(req[x], RequestLine(req[r]))
                          EXCEPT !.started = TRUE, !.start_time = now, !.pc = "dispatch"]
                 ELSE [req[x] EXCEPT !.started = TRUE, !.start_time = now]]
    /\ UNCHANGED <<config, psutil_installed, get_json_silent, sink_ok, now>>

\* what @app.before_request makes of request context q at time t
before_request(q, t) ==
    LET q1 == logger_call(q, RequestLine(q)) IN
    IF LoggerRaised(q1) THEN [q1 EXCEPT !.pc = "fault"]
    ELSE [q1 EXCEPT !.started = TRUE, !.start_time = t, !.pc = "dispatch"]

\* @app.before_request
log_request_info(r) ==
    /\ req[r].pc = "before"
    /\ req' = [req EXCEPT ![r] = before_request(req[r], now)]
    /\ UNCHANGED <<config, psutil_installed, get_json_silent, sink_ok, now>>

\* a view function ran for request r and returned or raised
Complete(r, view, result) ==
    /\ req' = [req EXCEPT ![r] =
                 LET q1 == logger_calls(req[r], result.logged) IN
                 IF LoggerRaised(q1) THEN [q1 EXCEPT !.pc = "fault", !.view = view]
                 ELSE IF result.raised
                 THEN [q1 EXCEPT !.pc = "fault", !.view = view, !.exc = result.exc]
                 ELSE [q1 EXCEPT !.pc = "after", !.view = view, !.rv = result.response]]
    /\ UNCHANGED <<config, psutil_installed, get_json_silent, sink_ok, now>>

Dispatching(r, view) == req[r].pc = "dispatch" /\ view_of(req[r]) = view

home(r) ==
    /\ Dispatching(r, "home")
    /\ Complete(r, "home", home_view(config, now))

health_check(r) ==
    /\ Dispatching(r, "health_check")
    /\ Complete(r, "health_check", health_check_view(config, now))

api_status(r) ==
    /\ Dispatching(r, "api_status")
    /\ Complete(r, "api_status", api_status_view(config, now))

api_version(r) ==
    /\ Dispatching(r, "api_version")
    /\ Complete(r, "api_version", api_version_view(config))

api_echo(r) ==
    /\ Dispatching(r, "api_echo")
    /\ Complete(r, "api_echo", api_echo_view(req[r], get_json_silent, now))

api_metrics(r) ==
    /\ Dispatching(r, "api_metrics")
    /\ Complete(r, "api_metrics", api_metrics_view(config, psutil_installed, now))

\* @app.errorhandler(404): no rule matches the path, or the static view finds
\* no such file (the repository ships no static folder)
not_found(r) ==
    /\ req[r].pc = "dispatch"
    /\ \/ match_request(req[r].method, req[r].path).routing_exception = "NotFound"
       \/ view_of(req[r]) = "static"
    /\ req' = [req EXCEPT ![r] =
                 [@ EXCEPT !.pc = "after", !.view = view_of(req[r]),
                           !.rv = not_found_handler(now)]]
    /\ UNCHANGED <<config, psutil_installed, get_json_silent, sink_ok, now>>

\* a rule matches the path but not the method
method_not_allowed(r) ==
    LET m == match_request(req[r].method, req[r].path) IN
    /\ req[r].pc = "dispatch"
    /\ m.routing_exception = "MethodNotAllowed"
    /\ req' = [req EXCEPT ![r] =
                 [@ EXCEPT !.pc = "after", !.rv = method_not_allowed_response(m.allow)]]
    /\ UNCHANGED <<config, psutil_installed, get_json_silent, sink_ok, now>>

\* OPTIONS on a path with a rule: answered by the framework, no view runs
make_default_options_response(r) ==
    LET m == match_request(req[r].method, req[r].path) IN
    /\ req[r].pc = "dispatch"
    /\ m.routing_exception = ""
    /\ req[r].method = "OPTIONS"
    /\ req' = [req EXCEPT ![r] =
                 [@ EXCEPT !.pc = "after", !.rv = default_options_response(m.allow)]]
    /\ UNCHANGED <<config, psutil_installed, get_json_silent, sink_ok, now>>

\* @app.errorhandler(500), reached through handle_exception
internal_error(r) ==
    /\ req[r].pc = "fault"
    /\ ~propagate_exceptions(config)
    /\ req' = [req EXCEPT ![r] =
                 LET q1 == logger_call(req[r], ErrorLine("Internal server error", req[r].exc)) IN
                 IF LoggerRaised(q1)
                 THEN \* an exception inside the error handler leaves the application
                      [q1 EXCEPT !.pc = "propagated"]
                 ELSE [q1 EXCEPT !.pc = "after", !.from_error_handler = TRUE,
                                 !.rv = internal_error_handler(now)]]
    /\ UNCHANGED <<config, psutil_installed, get_json_silent, sink_ok, now>>

\* handle_exception re-raises: the exception leaves the application and
\* neither the 500 handler nor the after_request hook runs
propagate_exception(r) ==
    /\ req[r].pc = "fault"
    /\ propagate_exceptions(config)
    /\ req' = [req EXCEPT ![r] = [@ EXCEPT !.pc = "propagated"]]
    /\ UNCHANGED <<config, psutil_installed, get_json_silent, sink_ok, now>>

\* what @app.after_request makes of request context q at time t
after_request(q, t) ==
    LET q1 == IF q.started
              THEN logger_call(q, ResponseLine(q.rv.status, t - q.start_time))
              ELSE \* request.start_time raises AttributeError
                   [q EXCEPT !.exc = "AttributeError"]
    IN  IF q.started /\ ~LoggerRaised(q1) THEN [q1 EXCEPT !.pc = "send"]
        ELSE \* an exception in the hook: dropped when the response came from
             \* the 500 handler, a failure of the request otherwise
             IF q.from_error_handler
             THEN [q EXCEPT !.pc = "send"]
             ELSE [q1 EXCEPT !.pc = "fault", !.rv = NoResponse]

\* @app.after_request
log_response_info(r) ==
    /\ req[r].pc = "after"
    /\ req' = [req EXCEPT ![r] = after_request(req[r], now)]
    /\ UNCHANGED <<config, psutil_installed, get_json_silent, sink_ok, now>>

\* the response as the WSGI layer writes it: no body in answer to HEAD
wsgi_response(q) ==
    IF q.method = "HEAD" THEN [q.rv EXCEPT !.body = EmptyBody] ELSE q.rv

send_response(r) ==
    /\ req[r].pc = "send"
    /\ req' = [req EXCEPT ![r] = [@ EXCEPT !.sent = wsgi_response(req[r]), !.pc = "done"]]
    /\ UNCHANGED <<config, psutil_installed, get_json_silent, sink_ok, now>>

(***************************************************************************)
(* Specifications                                                          *)
(***************************************************************************)
InitEnv ==
    /\ config \in Configs
    /\ psutil_installed \in BOOLEAN
    /\ get_json_silent \in BOOLEAN
    /\ sink_ok = TRUE
    /\ now = 0

\* one request at a time, every kind of request
Init == InitEnv /\ req = [r \in SeqClients |-> Idle]

Next ==
    \/ Tick
    \/ \E r \in SeqClients :
          \/ \E q \in AllRequests : Arrive(r, q)
          \/ log_request_info(r)
          \/ home(r)
          \/ health_check(r)
          \/ api_status(r)
          \/ api_version(r)
          \/ api_echo(r)
          \/ api_metrics(r)
          \/ not_found(r)
          \/ method_not_allowed(r)
          \/ make_default_options_response(r)
          \/ internal_error(r)
          \/ propagate_exception(r)
          \/ log_response_info(r)
          \/ send_response(r)

Spec == Init /\ [][Next]_vars

\* several requests in flight at once (app.run(threaded=True))
InitConc == InitEnv /\ req = [r \in ConcClients |-> Idle]

NextConc ==
    \E r \in ConcClients :
        \/ \E q \in ConcRequests : Arrive(r, q)
        \/ log_request_info(r)
        \/ api_status(r)
        \/ api_version(r)
        \/ api_echo(r)
        \/ not_found(r)
        \/ internal_error(r)
        \/ propagate_exception(r)
        \/ log_response_info(r)
        \/ send_response(r)

SpecConc == InitConc /\ [][NextConc]_vars

\* two clients, a logger whose stream may fail at any moment, and the clock
\* (default environment values, TESTING as the environment or a test sets it,
\* no psutil, and a get_json that raises, which makes api_echo log an error)
InitPair ==
    /\ InitEnv
    /\ ~config.DEBUG
    /\ config.ENV = "production"
    /\ config.BUILD_NUMBER = "unknown"
    /\ ~psutil_installed
    /\ ~get_json_silent
    /\ req = [r \in PairClients |-> Idle]

NextPair ==
    \/ Tick
    \/ sink_changes
    \/ \E r \in PairClients :
          \/ \E q \in PairRequests : Arrive(r, q)
          \/ log_request_info(r)
          \/ health_check(r)
          \/ api_version(r)
          \/ api_echo(r)
          \/ internal_error(r)
          \/ propagate_exception(r)
          \/ log_response_info(r)
          \/ send_response(r)

SpecPair == InitPair /\ [][NextPair]_vars

(***************************************************************************)
(* Properties                                                              *)
(***************************************************************************)
Clients == DOMAIN req

\* the application produced a response for r (the view or an error handler returned)
Responded(r) == req[r].pc \in {"after", "send", "done"}
\* r is past the dispatch stage, whatever came of it
Dispatched(r) == req[r].pc \in {"after", "send", "done", "fault", "propagated"}
\* r is over: answered, or ended by an exception that left the application
Over(r) == req[r].pc \in {"done", "propagated"}

IsRequest(r, method, path) == req[r].method = method /\ req[r].path = path

ErrorEnvelope(body, error, message, code) ==
    /\ DOMAIN body = {"error", "message", "status_code", "timestamp"}
    /\ body.error = error
    /\ body.message = message
    /\ body.status_code = code
    /\ \E t \in 0..now : body.timestamp = isoformat(t)

\* C1: every JSON document posted to /api/echo as application/json comes back
\* with HTTP 200 and an `echo` field deep-equal to the document.
C1_EchoDeepEqual ==
    \A r \in Clients :
        ( /\ req[r].pc = "done"
          /\ IsRequest(r, "POST", "/api/echo")
          /\ req[r].content_type = "application/json"
          /\ req[r].body.raw = "json" )
        => /\ req[r].sent.status = 200
           /\ req[r].sent.body.echo = req[r].body.doc

\* the bodies C2 is about: absent, the empty object sent as JSON, or text that
\* is no JSON sent without a JSON content type
C2_Case(q) ==
    \/ q.body.raw = "absent"
    \/ q.body = JsonBody(JEmptyObj) /\ q.content_type = "application/json"
    \/ q.body.raw = "text" /\ q.content_type # "application/json"

\* C2: a POST /api/echo whose body is absent, is {} or is non-JSON text without
\* a JSON content type is answered 200 with `echo` the empty mapping, never 400.
C2_EmptyBodyEchoesEmptyMapping ==
    \A r \in Clients :
        ( /\ req[r].pc = "done"
          /\ IsRequest(r, "POST", "/api/echo")
          /\ C2_Case(req[r]) )
        => /\ req[r].sent.status = 200
           /\ req[r].sent.body.echo = JEmptyObj

\* C3: GET /api/metrics is always answered 200; without psutil the `system`
\* field is a placeholder string and `application` and `timestamp` are there.
C3_MetricsAlways200 ==
    \A r \in Clients :
        (IsRequest(r, "GET", "/api/metrics") /\ Dispatched(r))
        => /\ Responded(r)
           /\ req[r].rv.status = 200
           /\ {"system", "application", "timestamp"} \subseteq DOMAIN req[r].rv.body
           /\ req[r].rv.body.application = metrics_application(config)
           /\ ~psutil_installed
                => req[r].rv.body.system = "metrics unavailable - psutil not installed"

HealthBody(body) ==
    /\ DOMAIN body = {"status", "timestamp", "version", "uptime"}
    /\ body.status = "healthy"
    /\ body.version = "1.0.0"
    /\ body.version = config.VERSION
    /\ body.uptime = "Available"
    /\ \E t \in 0..now : body.timestamp = isoformat(t)

\* C4: in every reachable state, whatever the configuration and whether or not
\* psutil is installed, GET /health runs health_check, never fails, and is
\* answered 200 with status "healthy", the configured version, uptime
\* "Available" and a timestamp.
C4_HealthAlwaysHealthy ==
    \A r \in Clients :
        (IsRequest(r, "GET", "/health") /\ Dispatched(r))
        => /\ Responded(r)
           /\ req[r].view = "health_check"
           /\ req[r].exc = ""
           /\ req[r].rv.status = 200
           /\ HealthBody(req[r].rv.body)
           /\ req[r].pc = "done" => req[r].sent = req[r].rv

\* a health check answered while psutil is missing and debug mode is on
C4_Witness ==
    \E r \in Clients :
        /\ IsRequest(r, "GET", "/health")
        /\ req[r].pc = "done"
        /\ req[r].sent.status = 200
        /\ ~psutil_installed
        /\ config.DEBUG
        /\ config.ENV = "staging"

InternalErrorBody(body) ==
    ErrorEnvelope(body, "Internal Server Error", "An unexpected error occurred", 500)

\* what became of a request in which a view or hook raised: the 500 envelope
\* from the error handler, and no exception past it
FaultAnswered500(r) ==
    /\ req[r].pc # "propagated"
    /\ Responded(r)
         => /\ req[r].rv.status = 500
            /\ InternalErrorBody(req[r].rv.body)
    /\ req[r].pc = "done"
         => /\ req[r].sent.status = 500
            /\ req[r].method # "HEAD" => req[r].sent.body = req[r].rv.body

\* C5 (as stated): every uncaught failure of a handler becomes a 500 response
\* with the fixed four-field body, and the failure does not propagate past the
\* error handler.
C5_FaultBecomes500 ==
    \A r \in Clients :
        (req[r].exc # "" /\ req[r].pc # "fault") => FaultAnswered500(r)

\* C5 (amended): with neither DEBUG nor TESTING set, every uncaught failure of
\* a handler becomes a 500 response with the fixed four-field body (the body
\* is not sent in answer to HEAD); with DEBUG or TESTING set the framework
\* re-raises the failure and the application produces no response.
C5_FaultBecomes500UnlessPropagating ==
    \A r \in Clients :
        (req[r].exc # "" /\ req[r].pc # "fault")
        => IF propagate_exceptions(config)
           THEN req[r].pc = "propagated" /\ req[r].rv = NoResponse
           ELSE FaultAnswered500(r)

\* two different failures answered with the 500 envelope, in production mode
C5_Witness ==
    \E r \in Clients :
        /\ req[r].pc = "done"
        /\ req[r].exc = "ModuleNotFoundError"
        /\ req[r].method = "GET"
        /\ req[r].sent.status = 500
        /\ InternalErrorBody(req[r].sent.body)
        /\ ~config.DEBUG /\ ~config.TESTING

NotFoundBody(body) ==
    ErrorEnvelope(body, "Not Found", "The requested resource was not found", 404)

\* C6 (as stated): a request to a path that is none of the six routes, with
\* any method, is answered 404 with the four-field envelope.
C6_UnroutedPathIs404 ==
    \A r \in Clients :
        (req[r].pc = "done" /\ req[r].path \notin RoutePaths)
        => /\ req[r].sent.status = 404
           /\ NotFoundBody(req[r].sent.body)

\* C6 (amended): a request to a path no URL rule matches (none of the six
\* routes and not under /static/), with any method, is answered 404 by
\* not_found with the four-field envelope, which is sent unless the method is
\* HEAD; under /static/ GET and HEAD of a missing file get the same 404,
\* OPTIONS gets 200 and every other method 405.
C6_UnmatchedPathIs404 ==
    \A r \in Clients :
        /\ (Dispatched(r) /\ req[r].path \in UnknownPaths)
           => /\ Responded(r)
              /\ req[r].rv.status = 404
              /\ NotFoundBody(req[r].rv.body)
              /\ req[r].pc = "done"
                   => /\ req[r].sent.status = 404
                      /\ req[r].sent.body =
                            IF req[r].method = "HEAD" THEN EmptyBody ELSE req[r].rv.body
        /\ (req[r].pc = "done" /\ req[r].path \in StaticPaths)
           => IF req[r].method \in {"GET", "HEAD"}
              THEN req[r].sent.status = 404 /\ NotFoundBody(req[r].rv.body)
              ELSE IF req[r].method = "OPTIONS"
                   THEN req[r].sent.status = 200
                   ELSE req[r].sent.status = 405

\* a DELETE of an unknown path answered with the 404 envelope
C6_Witness ==
    \E r \in Clients :
        /\ req[r].pc = "done"
        /\ req[r].path = "/nonexistent-endpoint"
        /\ req[r].method = "DELETE"
        /\ req[r].sent.status = 404
        /\ NotFoundBody(req[r].sent.body)

\* the method the route table lists for a path
ListedMethod(path) == IF path = "/api/echo" THEN "POST" ELSE "GET"

\* C7 (as stated): a request to one of the six paths with a method other than
\* the one listed for it is answered 405 and reaches no handler.
C7_OnlyListedMethod ==
    \A r \in Clients :
        ( /\ Dispatched(r)
          /\ req[r].path \in RoutePaths
          /\ req[r].method # ListedMethod(req[r].path) )
        => /\ req[r].view = ""
           /\ Responded(r)
           /\ req[r].rv.status = 405

\* C7 (amended): on each of the six paths the listed method runs the view;
\* HEAD on a GET path runs the view too; OPTIONS is answered 200 by the
\* framework without running a view; every other method is answered 405 and
\* runs no view.
C7_ListedMethodHeadOptions ==
    \A r \in Clients :
        (Dispatched(r) /\ req[r].path \in RoutePaths)
        => LET listed == ListedMethod(req[r].path) IN
           IF req[r].method = listed \/ (req[r].method = "HEAD" /\ listed = "GET")
           THEN req[r].view # "" /\ req[r].rv.status # 405
           ELSE /\ req[r].view = ""
                /\ Responded(r)
                /\ req[r].rv.status = IF req[r].method = "OPTIONS" THEN 200 ELSE 405

\* a DELETE of /health answered 405 without running a view
C7_Witness ==
    \E r \in Clients :
        /\ IsRequest(r, "DELETE", "/health")
        /\ req[r].pc = "done"
        /\ req[r].sent.status = 405
        /\ req[r].view = ""

\* how many lines of kind msg the logger got for a request
Lines(q, msg) == Cardinality({ i \in DOMAIN q.log : q.log[i].msg = msg })

StatusFields ==
    {"application", "status", "version", "environment", "build_number", "git_commit",
     "timestamp", "debug_mode", "testing_mode"}

StatusBody(body) ==
    /\ DOMAIN body = StatusFields
    /\ body.application = "Flask CI/CD Demo"
    /\ body.status = "running"
    /\ body.version = config.VERSION
    /\ body.environment = config.ENV
    /\ body.build_number = config.BUILD_NUMBER
    /\ body.git_commit = config.GIT_COMMIT
    /\ body.debug_mode = config.DEBUG
    /\ body.testing_mode = config.TESTING
    /\ \E t \in 0..now : body.timestamp = isoformat(t)

\* C9: whatever other requests are in flight and however their steps
\* interleave, every GET /api/status is answered 200 with exactly the nine
\* fields, status "running" and the other fields equal to the configuration.
C9_StatusIndependentOfOtherRequests ==
    \A r \in Clients :
        (IsRequest(r, "GET", "/api/status") /\ Dispatched(r))
        => /\ Responded(r)
           /\ req[r].exc = ""
           /\ req[r].rv.status = 200
           /\ StatusBody(req[r].rv.body)
           /\ req[r].pc = "done" => req[r].sent = req[r].rv

\* a status request answered while another request, which failed, is in flight
C9_Witness ==
    \E r1, r2 \in Clients :
        /\ r1 # r2
        /\ IsRequest(r1, "GET", "/api/status")
        /\ req[r1].pc = "done"
        /\ req[r1].sent.status = 200
        /\ req[r2].pc = "fault"

\* C10: no step of a handler, logging hook or error handler changes the
\* configuration (or the installed collaborators); a step changes the request
\* context of one request only, and log_request_info is the step that sets the
\* start time, for its own request.
C10_ConfigurationFixed ==
    [][ /\ config' = config
        /\ psutil_installed' = psutil_installed
        /\ get_json_silent' = get_json_silent
        /\ \A r1, r2 \in Clients :
              (r1 # r2 /\ req'[r1] # req[r1]) => req'[r2] = req[r2]
        /\ \A r \in Clients :
              (req[r].pc # "before" /\ req'[r].pc # "before")
              => /\ req'[r].started = req[r].started
                 /\ req'[r].start_time = req[r].start_time ]_vars

\* one request has set its start time while another, arrived, has not
C10_Witness ==
    \E r1, r2 \in Clients :
        /\ r1 # r2
        /\ req[r1].started
        /\ req[r1].pc = "done"
        /\ req[r2].pc = "before"
        /\ ~req[r2].started

\* a step of the handling of request r
RequestStep(r) ==
    \/ log_request_info(r)
    \/ home(r) \/ health_check(r) \/ api_status(r) \/ api_version(r)
    \/ api_echo(r) \/ api_metrics(r)
    \/ not_found(r) \/ method_not_allowed(r) \/ make_default_options_response(r)
    \/ internal_error(r) \/ propagate_exception(r)
    \/ log_response_info(r)
    \/ send_response(r)

SameRequest(r1, r2) ==
    /\ req[r1].method = req[r2].method
    /\ req[r1].path = req[r2].path
    /\ req[r1].content_type = req[r2].content_type
    /\ req[r1].body = req[r2].body

\* two documents with the same fields and the same values, the timestamp aside
SameExceptTimestamp(b1, b2) ==
    /\ DOMAIN b1 = DOMAIN b2
    /\ \A k \in DOMAIN b1 \ {"timestamp"} : b1[k] = b2[k]

\* the application is through with the handlers of r: it produced a response
\* or let the exception out
Settled(r) == Responded(r) \/ req[r].pc = "propagated"

C12_HealthIdempotent ==
    /\ [] \A r1, r2 \in Clients :
            ( /\ IsRequest(r1, "GET", "/health") /\ Responded(r1)
              /\ IsRequest(r2, "GET", "/health") /\ Responded(r2) )
            => /\ req[r1].rv.status = 200
               /\ req[r2].rv.status = 200
               /\ SameExceptTimestamp(req[r1].rv.body, req[r2].rv.body)
               /\ (req[r1].pc = "done" /\ req[r2].pc = "done")
                    => /\ req[r1].sent.status = req[r2].sent.status
                       /\ SameExceptTimestamp(req[r1].sent.body, req[r2].sent.body)
    /\ [][ \A r \in Clients :
             (IsRequest(r, "GET", "/health") /\ InFlight(r) /\ req'[r] # req[r])
             => /\ config' = config
                /\ psutil_installed' = psutil_installed
                /\ get_json_silent' = get_json_silent
                /\ sink_ok' = sink_ok
                /\ now' = now
                /\ \A r2 \in Clients \ {r} : req'[r2] = req[r2] ]_vars

\* two health calls answered at different times
C12_Witness ==
    \E r1, r2 \in Clients :
        /\ r1 # r2
        /\ IsRequest(r1, "GET", "/health") /\ req[r1].pc = "done"
        /\ IsRequest(r2, "GET", "/health") /\ req[r2].pc = "done"
        /\ req[r1].sent.status = 200
        /\ req[r1].sent.body.timestamp # req[r2].sent.body.timestamp
        /\ req[r1].sent.body.version = req[r2].sent.body.version

====
